---- MODULE Spec2Model ----
(***************************************************************************)
(* Model of scripts/saved_network_visualize_topology.py: the digital twin  *)
(* of an SDN topology.  A background thread (real_time_update) polls the   *)
(* controller and publishes topology tuples into fetch_queue, the main     *)
(* thread renders them, captures snapshots and replays them offline        *)
(* (remove_link, add_link, pingall).                                       *)
(*                                                                         *)
(* Encoding of Python values.  TLC cannot compare values of different      *)
(* kinds, so a value whose Python type the code inspects carries its type  *)
(* as the first component:                                                 *)
(*    <<"int", 3>>            the int 3 (a switch id used as a node)       *)
(*    <<"str", <<"h","1">>>>  the str "h1"; a str is its sequence of chars *)
(*    <<"tuple", x, y>>       the tuple (x, y)                             *)
(*    <<"list", x, y>>        the two-element list [x, y] (after JSON)     *)
(*    <<"dict", r>>           a raw link dict, r its record                *)
(*    <<"None">>, <<"some", v>>  a global that is None / holds v           *)
(* A port number is a positive int; PortNone stands for None in a port     *)
(* position.  Host-link dicts are records (with or without host_mac).      *)
(***************************************************************************)
EXTENDS Integers, Sequences, FiniteSets, TLC

(***************************************************************************)
(* Bounds of the model                                                     *)
(***************************************************************************)
\* number of times mode "real" can be chosen (threads started) in a session
MaxThreads == 2
\* number of tuples fetch_queue holds before the producers are held back
MaxQueue == 2
\* number of tuples published in a session
MaxPublish == 2
\* length up to which add_link grows links / host_links in replay
MaxLinks == 2
\* switches and hosts of the topologies pingall and the redraw are tried on
MaxSwitches == 2
MaxHosts == 3
\* ports of a switch and length of the raw link lists deduplicate_links is
\* tried on
MaxPorts == 2
MaxRawLinks == 2

\* stands for Python's None in the port position of a link endpoint
PortNone == 0

(***************************************************************************)
(* Python values                                                           *)
(***************************************************************************)
PyInt(i) == <<"int", i>>
PyStr(s) == <<"str", s>>
PyNone == <<"None">>
Some(v) == <<"some", v>>
IsNone(v) == v[1] = "None"
ValueOf(v) == v[2]
isinstance_int(v) == v[1] = "int"
isinstance_str(v) == v[1] = "str"
Tuple2(x, y) == <<"tuple", x, y>>
List2(x, y) == <<"list", x, y>>
Dict(r) == <<"dict", r>>
IsDict(v) == v[1] = "dict"
\* t[i] of a Python tuple or list t (0-based)
Item(t, i) == t[i + 2]

Range(s) == {s[i] : i \in DOMAIN s}

\* all the orders in which the elements of a finite set can be listed
RECURSIVE Orderings(_)
Orderings(S) ==
    IF S = {} THEN {<<>>}
    ELSE UNION {{<<x>> \o t : t \in Orderings(S \ {x})} : x \in S}

(***************************************************************************)
(* Strings: str.startswith, int(), str(int), comparison                    *)
(***************************************************************************)
DigitChars == <<"0", "1", "2", "3", "4", "5", "6", "7", "8", "9">>
\* the characters of the model in ASCII order
Alphabet == DigitChars \o <<"h", "x">>
CharCode(c) == CHOOSE i \in DOMAIN Alphabet : Alphabet[i] = c
IsDigit(c) == \E i \in DOMAIN DigitChars : DigitChars[i] = c
DigitVal(c) == (CHOOSE i \in DOMAIN DigitChars : DigitChars[i] = c) - 1

startswith_h(s) == Len(s) > 0 /\ s[1] = "h"

\* int(s) raises ValueError unless s is a non-empty string of digits
IntRaises(s) == Len(s) = 0 \/ \E i \in DOMAIN s : ~IsDigit(s[i])
RECURSIVE IntOf(_)
IntOf(s) ==
    IF Len(s) = 0 THEN 0
    ELSE 10 * IntOf(SubSeq(s, 1, Len(s) - 1)) + DigitVal(s[Len(s)])

\* str(n), n >= 0
RECURSIVE StrOf(_)
StrOf(n) ==
    IF n < 10 THEN <<DigitChars[n + 1]>>
    ELSE StrOf(n \div 10) \o <<DigitChars[(n % 10) + 1]>>

\* f"h{host_counter}"
HostName(n) == <<"h">> \o StrOf(n)

\* s < t for Python strings
RECURSIVE StrLess(_, _)
StrLess(s, t) ==
    IF Len(t) = 0 THEN FALSE
    ELSE IF Len(s) = 0 THEN TRUE
    ELSE IF s[1] # t[1] THEN CharCode(s[1]) < CharCode(t[1])
    ELSE StrLess(Tail(s), Tail(t))

\* sorted(S) for a set of strings
RECURSIVE SortedStrs(_)
SortedStrs(S) ==
    IF S = {} THEN <<>>
    ELSE LET m == CHOOSE x \in S : \A y \in S \ {x} : StrLess(x, y)
         IN <<m>> \o SortedStrs(S \ {m})

(***************************************************************************)
(* deduplicate_links                                                       *)
(***************************************************************************)
\* (dpid, port_no) pairs in Python's tuple order
EndpointLess(a, b) == a[1] < b[1] \/ (a[1] = b[1] /\ a[2] < b[2])

\* the pair (src, dst) as reported, without the sort
CanonicalLink_as_reported(link) ==
    LET r == ValueOf(link)
    IN Tuple2(Tuple2(r.src.dpid, r.src.port_no), Tuple2(r.dst.dpid, r.dst.port_no))

\* tuple(sorted((src, dst))) of one raw link
CanonicalLink(link) ==
    LET r == ValueOf(link)
        src == <<r.src.dpid, r.src.port_no>>
        dst == <<r.dst.dpid, r.dst.port_no>>
        lo == IF EndpointLess(dst, src) THEN dst ELSE src
        hi == IF EndpointLess(dst, src) THEN src ELSE dst
    IN Tuple2(Tuple2(lo[1], lo[2]), Tuple2(hi[1], hi[2]))

\* the set unique_links after the loop
unique_links(links) == {CanonicalLink(links[i]) : i \in DOMAIN links}

\* list(unique_links): the lists deduplicate_links can return; the order in
\* which a Python set is listed is not fixed by the code
deduplicate_links(links) == Orderings(unique_links(links))

(***************************************************************************)
(* initialize_host_mapping                                                 *)
(***************************************************************************)
\* link["src"] on an element that is no dict (a tuple of deduplicate_links)
\* raises TypeError
initialize_host_mapping_raises(links) ==
    \E i \in DOMAIN links : ~IsDict(links[i])

\* the dict switch_ports: dpid -> set of ports used by switch-to-switch links
switch_ports(links) ==
    LET ends == UNION {{<<ValueOf(links[i]).src.dpid, ValueOf(links[i]).src.port_no>>,
                        <<ValueOf(links[i]).dst.dpid, ValueOf(links[i]).dst.port_no>>}
                       : i \in DOMAIN links}
    IN [d \in {e[1] : e \in ends} |-> {e[2] : e \in {x \in ends : x[1] = d}}]

\* a sort key that looks at the switch only
HostKey_switch_only(h) == <<IntOf(h.attached_switch), 0>>

\* the sort key (int(h["attached_switch"]), int(h["attached_port"]))
HostKey(h) == <<IntOf(h.attached_switch), IntOf(h.attached_port)>>

\* sorted(hosts, key=HostKey): Python's sort is stable
RECURSIVE InsertHost(_, _)
InsertHost(sorted, h) ==
    IF sorted = <<>> THEN <<h>>
    ELSE IF EndpointLess(HostKey(h), HostKey(sorted[Len(sorted)]))
         THEN Append(InsertHost(SubSeq(sorted, 1, Len(sorted) - 1), h),
                     sorted[Len(sorted)])
         ELSE Append(sorted, h)

RECURSIVE SortedHosts(_)
SortedHosts(hosts) ==
    IF hosts = <<>> THEN <<>>
    ELSE InsertHost(SortedHosts(SubSeq(hosts, 1, Len(hosts) - 1)), hosts[Len(hosts)])

\* the loop over the sorted hosts, from host i on with the counter at host_counter
RECURSIVE MapHosts(_, _, _, _)
MapHosts(sp, hosts, i, host_counter) ==
    IF i > Len(hosts) THEN <<>>
    ELSE LET switch_id == IntOf(hosts[i].attached_switch)
             port_no == IntOf(hosts[i].attached_port)
         IN IF switch_id \in DOMAIN sp /\ port_no \in sp[switch_id]
            THEN MapHosts(sp, hosts, i + 1, host_counter)
            ELSE <<[host_name |-> HostName(host_counter),
                    host_mac |-> hosts[i].mac,
                    switch_dpid |-> switch_id,
                    port_no |-> port_no]>>
                 \o MapHosts(sp, hosts, i + 1, host_counter + 1)

\* the list returned when no TypeError is raised
initialize_host_mapping(links, hosts) ==
    MapHosts(switch_ports(links), SortedHosts(hosts), 1, 1)

\* filter_host_links, lines 103-117: the loop over the sorted hosts, which
\* appends under the condition that initialize_host_mapping skips on
RECURSIVE FilterHosts(_, _, _, _)
FilterHosts(sp, hosts, i, host_counter) ==
    IF i > Len(hosts) THEN <<>>
    ELSE LET switch_id == IntOf(hosts[i].attached_switch)
             port_no == IntOf(hosts[i].attached_port)
         IN IF switch_id \notin DOMAIN sp \/ port_no \notin sp[switch_id]
            THEN <<[host_name |-> HostName(host_counter),
                    host_mac |-> hosts[i].mac,
                    switch_dpid |-> switch_id,
                    port_no |-> port_no]>>
                 \o FilterHosts(sp, hosts, i + 1, host_counter + 1)
            ELSE FilterHosts(sp, hosts, i + 1, host_counter)

\* filter_host_links, lines 86-119 (no caller)
filter_host_links(links, hosts) ==
    FilterHosts(switch_ports(links), SortedHosts(hosts), 1, 1)

(***************************************************************************)
(* networkx.Graph: a node set and a set of undirected edges                *)
(***************************************************************************)
EmptyGraph == [nodes |-> {}, edges |-> {}]
add_node(g, n) == [g EXCEPT !.nodes = @ \cup {n}]
add_edge(g, u, v) == [nodes |-> g.nodes \cup {u, v}, edges |-> g.edges \cup {{u, v}}]
remove_edge(g, u, v) == [g EXCEPT !.edges = @ \ {{u, v}}]
\* a test that finds every edge
has_edge_always(g, u, v) == TRUE
has_edge(g, u, v) == {u, v} \in g.edges
has_node(g, n) == n \in g.nodes
neighbors(g, n) == {m \in g.nodes : {n, m} \in g.edges}

\* the nodes a search from the set seen reaches
RECURSIVE Reached(_, _)
Reached(g, seen) ==
    LET next == seen \cup UNION {neighbors(g, n) : n \in seen}
    IN IF next = seen THEN seen ELSE Reached(g, next)

\* nx.has_path(G, source, target), both nodes of G
has_path(g, source, target) == target \in Reached(g, {source})

(***************************************************************************)
(* visualize_topology: the rebuild of G (the drawing is not modelled)      *)
(***************************************************************************)
\* the pairs with the first switch of the link at both ends
graph_links_loops(links) ==
    [i \in DOMAIN links |-> <<Item(Item(links[i], 0), 0), Item(Item(links[i], 0), 0)>>]

\* graph_links = [(link[0][0], link[1][0]) for link in links]
graph_links(links) ==
    [i \in DOMAIN links |-> <<Item(Item(links[i], 0), 0), Item(Item(links[i], 1), 0)>>]

RECURSIVE add_edges_from(_, _)
add_edges_from(g, pairs) ==
    IF pairs = <<>> THEN g
    ELSE add_edges_from(add_edge(g, PyInt(pairs[1][1]), PyInt(pairs[1][2])), Tail(pairs))

RECURSIVE add_host_links(_, _)
add_host_links(g, host_links) ==
    IF host_links = <<>> THEN g
    ELSE LET host_node == PyStr(host_links[1].host_name)
             switch_node == PyInt(host_links[1].switch_dpid)
         IN add_host_links(add_edge(add_node(g, host_node), switch_node, host_node),
                           Tail(host_links))

\* lines 262-264: add_node on every isolated host that is a node already
readd_isolated_hosts(g) ==
    [g EXCEPT !.nodes = @ \cup {n \in g.nodes : /\ isinstance_str(n)
                                                /\ startswith_h(n[2])
                                                /\ neighbors(g, n) = {}}]

\* a clear that forgets nothing
clear_keeps(g) == g

\* G.clear()
clear(g) == EmptyGraph

\* G after visualize_topology(G, switches, links, host_links)
visualize_topology(g, switches, links, host_links) ==
    LET cleared == clear(g)
        g1 == [cleared EXCEPT !.nodes = @ \cup {PyInt(switches[i]) : i \in DOMAIN switches}]
        g2 == add_edges_from(g1, graph_links(links))
        g3 == add_host_links(g2, host_links)
    IN readd_isolated_hosts(g3)

(***************************************************************************)
(* pingall                                                                 *)
(***************************************************************************)
\* has_node(src) and has_node(dst) and has_path(src, dst)
Pings(g, src, dst) ==
    /\ has_node(g, PyStr(src))
    /\ has_node(g, PyStr(dst))
    /\ has_path(g, PyStr(src), PyStr(dst))

\* reachable without the test src != dst
reachable_with_self(g, hosts, src) ==
    LET Ok(dst) == Pings(g, src, dst)
    IN SelectSeq(hosts, Ok)

\* the list reachable of one source
reachable(g, hosts, src) ==
    LET Ok(dst) == src # dst /\ Pings(g, src, dst)
    IN SelectSeq(hosts, Ok)

RECURSIVE SumLen(_, _)
SumLen(f, hosts) ==
    IF hosts = <<>> THEN 0 ELSE Len(f[hosts[1]]) + SumLen(f, Tail(hosts))

\* what pingall prints: one line per source, the loss in hundredths of a
\* percent (the rendering of {:.2f}) and the two counters
pingall(g, all_hosts) ==
    LET hosts == SortedStrs(Range(all_hosts))
        total_pings == Len(hosts) * (Len(hosts) - 1)
        lines == [src \in Range(hosts) |-> reachable(g, hosts, src)]
        successful_pings == SumLen(lines, hosts)
        loss == IF total_pings > 0
                THEN (2 * 10000 * (total_pings - successful_pings) + total_pings)
                     \div (2 * total_pings)
                ELSE 0
    IN [hosts |-> hosts, lines |-> lines, successful_pings |-> successful_pings,
        total_pings |-> total_pings, packet_loss |-> loss]

(***************************************************************************)
(* save_snapshot, load_snapshot: json.dump writes a tuple as an array,     *)
(* json.load reads an array as a list                                      *)
(***************************************************************************)
JsonPair(t) == List2(Item(t, 0), Item(t, 1))
JsonLink(link) == List2(JsonPair(Item(link, 0)), JsonPair(Item(link, 1)))

\* the document save_snapshot leaves in SNAPSHOT_FILE
save_snapshot(sw, ls, hls) ==
    Some([switches |-> sw,
          links |-> [i \in DOMAIN ls |-> JsonLink(ls[i])],
          host_links |-> hls])

\* what open(SNAPSHOT_FILE, "w") and json.dump leave on disk: the new
\* document alone, whatever the file held
write_keeps_old(old, document) == IF IsNone(old) THEN document ELSE old

write(old, document) == document

\* a file that is not a JSON document
Unreadable == <<"unreadable">>

\* the triple load_snapshot returns; a missing file, a document that does not
\* parse and a document without one of the three keys raise, and the handler
\* returns three empty lists
load_snapshot(file) ==
    IF \/ IsNone(file)
       \/ file = Unreadable
       \/ ~({"switches", "links", "host_links"} \subseteq DOMAIN ValueOf(file))
    THEN [switches |-> <<>>, links |-> <<>>, host_links |-> <<>>]
    ELSE [switches |-> ValueOf(file).switches, links |-> ValueOf(file).links,
          host_links |-> ValueOf(file).host_links]

(***************************************************************************)
(* The state of the program                                                *)
(***************************************************************************)
VARIABLES
    mpc,                   \* where the main thread is
    threads,               \* the real_time_update threads started so far
    stop_real_time,        \* the threading.Event
    fetch_queue,           \* the queue.Queue
    initial_host_mapping,  \* global, None until first assigned
    initial_switch_links,  \* global, None until first assigned
    G,                     \* the nx.Graph
    snapshot_file,         \* what SNAPSHOT_FILE holds, from the save to the load
    switches, links, host_links,      \* module-level names of __main__
    hosts, deduplicated_links,
    all_hosts, links_snapshot, host_links_snapshot,
    last,                  \* the last operation the operator chose and what it printed
    published,             \* number of tuples put into fetch_queue so far
    taken,                 \* the last tuple the render loop took
    hm_writes, sl_writes   \* assignments to the two globals so far

vars == <<mpc, threads, stop_real_time, fetch_queue, initial_host_mapping,
          initial_switch_links, snapshot_file, G, switches, links, host_links,
          hosts, deduplicated_links, all_hosts, links_snapshot,
          host_links_snapshot, last,
          published, taken, hm_writes, sl_writes>>

(***************************************************************************)
(* remove_link, add_link                                                   *)
(***************************************************************************)
\* the parse of one endpoint token: int(token) raises ValueError
TokenRaises(token) == ~startswith_h(token) /\ IntRaises(token)
ParseNode(token) == IF startswith_h(token) THEN PyStr(token) ELSE PyInt(IntOf(token))

\* the comparison with one endpoint of the link taken twice
SamePair_one_end(link, src, dst) ==
    {Item(Item(link, 0), 0), Item(Item(link, 0), 0)} = {ValueOf(src), ValueOf(dst)}

\* {link[0][0], link[1][0]} == {src, dst} for two int nodes src, dst
SamePair(link, src, dst) ==
    {Item(Item(link, 0), 0), Item(Item(link, 1), 0)} = {ValueOf(src), ValueOf(dst)}

\* the comparison that finds the host at src only
SameAttachment_host_first(host_link, src, dst) ==
    PyStr(host_link.host_name) = src /\ PyInt(host_link.switch_dpid) = dst

\* (link["host_name"] == src and link["switch_dpid"] == dst) or the reverse
SameAttachment(host_link, src, dst) ==
    \/ PyStr(host_link.host_name) = src /\ PyInt(host_link.switch_dpid) = dst
    \/ PyStr(host_link.host_name) = dst /\ PyInt(host_link.switch_dpid) = src

\* lines 153-156
keep_hosts(g, src, dst, ah) ==
    LET g1 == IF isinstance_str(src) /\ ValueOf(src) \in Range(ah) THEN add_node(g, src) ELSE g
    IN IF isinstance_str(dst) /\ ValueOf(dst) \in Range(ah) THEN add_node(g1, dst) ELSE g1

\* G, links, host_links after remove_link and what it printed
remove_link(g, source, destination, sw, ls, hls, ah) ==
    IF TokenRaises(source) \/ TokenRaises(destination)
    THEN [G |-> g, links |-> ls, host_links |-> hls, out |-> "Invalid input"]
    ELSE LET src == ParseNode(source)
             dst == ParseNode(destination)
             both_int == isinstance_int(src) /\ isinstance_int(dst)
             KeepLink(link) == ~SamePair(link, src, dst)
             KeepHost(link) == ~SameAttachment(link, src, dst)
             ls1 == IF both_int THEN SelectSeq(ls, KeepLink) ELSE ls
             hls1 == IF both_int THEN hls ELSE SelectSeq(hls, KeepHost)
             g1 == remove_edge(g, src, dst)
             g2 == IF both_int THEN g1 ELSE keep_hosts(g1, src, dst, ah)
         IN IF has_edge(g, src, dst)
            THEN [G |-> visualize_topology(g2, sw, ls1, hls1), links |-> ls1,
                  host_links |-> hls1, out |-> "Link removed"]
            ELSE [G |-> g, links |-> ls, host_links |-> hls,
                  out |-> "Link does not exist"]

\* the appended entry with src at both ends
switch_link_record_loop(src, port_no, dst) ==
    Tuple2(Tuple2(src, port_no), Tuple2(src, PortNone))

\* line 204: the record appended to links, ((src, port_no), (dst, None))
switch_link_record(src, port_no, dst) ==
    Tuple2(Tuple2(src, port_no), Tuple2(dst, PortNone))

\* the index at which the search loop breaks, hits being the indexes of the
\* entries that match; 0 when the loop ends without a match
FirstMatch(hits) ==
    IF hits = {} THEN 0 ELSE CHOOSE i \in hits : \A j \in hits : i <= j

\* G, links, host_links after add_link and what it printed; iterating over
\* initial_switch_links while it is None raises TypeError, which nothing catches
add_link(g, source, destination, sw, ls, hls, hls_snapshot) ==
    IF TokenRaises(source) \/ TokenRaises(destination)
    THEN [G |-> g, links |-> ls, host_links |-> hls, out |-> "Invalid input"]
    ELSE LET src == ParseNode(source)
             dst == ParseNode(destination)
             both_int == isinstance_int(src) /\ isinstance_int(dst)
         IN IF both_int /\ IsNone(initial_switch_links)
            THEN [G |-> g, links |-> ls, host_links |-> hls, out |-> "TypeError"]
            ELSE LET facts == IF both_int THEN ValueOf(initial_switch_links)
                              ELSE hls_snapshot
                     Match(f) == IF both_int THEN SamePair(f, src, dst)
                                 ELSE SameAttachment(f, src, dst)
                     k == FirstMatch({i \in DOMAIN facts : Match(facts[i])})
                     is_valid_link == k # 0
                     port_no ==
                         IF both_int
                         THEN (IF Item(Item(facts[k], 0), 0) = ValueOf(src)
                               THEN Item(Item(facts[k], 0), 1)
                               ELSE Item(Item(facts[k], 1), 1))
                         ELSE facts[k].port_no
                     ls1 == IF both_int
                            THEN Append(ls, switch_link_record(ValueOf(src), port_no,
                                                               ValueOf(dst)))
                            ELSE ls
                     hls1 == IF both_int THEN hls
                             ELSE Append(hls,
                                  [host_name |-> IF isinstance_str(src)
                                                 THEN ValueOf(src) ELSE ValueOf(dst),
                                   switch_dpid |-> IF isinstance_int(dst)
                                                   THEN ValueOf(dst) ELSE ValueOf(src),
                                   port_no |-> port_no])
                 IN IF is_valid_link
                    THEN [G |-> visualize_topology(add_edge(g, src, dst), sw, ls1, hls1),
                          links |-> ls1, host_links |-> hls1, out |-> "Link added"]
                    ELSE [G |-> g, links |-> ls, host_links |-> hls,
                          out |-> "not connected in original topology"]

(***************************************************************************)
(* What the controller's REST API can answer                               *)
(***************************************************************************)
RawLink(sd, sp, dd, dp) ==
    Dict([src |-> [dpid |-> sd, port_no |-> sp], dst |-> [dpid |-> dd, port_no |-> dp]])

\* fetch_topology: ([], []) when a request fails, else the switches and the
\* links, each link reported once per direction; the links are empty until
\* the controller has discovered them
TopologyAnswers ==
    {[switches |-> <<>>, links |-> <<>>],
     [switches |-> <<1, 2>>, links |-> <<>>],
     [switches |-> <<1, 2>>, links |-> <<RawLink(1, 1, 2, 1), RawLink(2, 1, 1, 1)>>]}

\* fetch_hosts: [] when the request fails, else one entry per MAC with the
\* switch and port as the controller's numeric strings
HostAnswers ==
    {<<>>,
     <<[mac |-> "00:00:00:00:00:01", attached_switch |-> <<"1">>, attached_port |-> <<"3">>],
       [mac |-> "00:00:00:00:00:02", attached_switch |-> <<"2">>, attached_port |-> <<"3">>]>>}

\* the endpoint tokens the operator types in replay
Tokens == {<<"1">>, <<"2">>, <<"h", "1">>, <<"h", "2">>, <<"x">>}

(***************************************************************************)
(* Initial state: module import and the first lines of __main__            *)
(***************************************************************************)
ThreadIds == 1..MaxThreads

NotStarted ==
    [pc |-> "not started", switches |-> <<>>, links |-> <<>>, hosts |-> <<>>,
     deduplicated_links |-> <<>>, current_host_links |-> <<>>,
     stop_set |-> FALSE, outlived_stop |-> FALSE]

NoOperation ==
    [op |-> "none", source |-> <<>>, destination |-> <<>>, out |-> "",
     before |-> EmptyGraph, result |-> <<>>]

Init ==
    /\ mpc = "menu"
    /\ threads = [t \in ThreadIds |-> NotStarted]
    /\ stop_real_time = FALSE
    /\ fetch_queue = <<>>
    /\ initial_host_mapping = PyNone
    /\ initial_switch_links = PyNone
    /\ G = EmptyGraph
    /\ snapshot_file = PyNone
    /\ switches = <<>>
    /\ links = <<>>
    /\ host_links = <<>>
    /\ hosts = <<>>
    /\ deduplicated_links = <<>>
    /\ all_hosts = <<>>
    /\ links_snapshot = <<>>
    /\ host_links_snapshot = <<>>
    /\ last = NoOperation
    /\ published = 0
    /\ taken = [seq |-> 0, published |-> 0, count |-> 0]
    /\ hm_writes = 0
    /\ sl_writes = 0

\* the process runs: it has neither exited nor died of an uncaught exception
Running == mpc \notin {"exited", "crashed"}

mainLocals == <<switches, links, host_links, hosts, deduplicated_links,
                all_hosts, links_snapshot, host_links_snapshot>>
ghosts == <<last, published, taken, hm_writes, sl_writes>>

(***************************************************************************)
(* real_time_update, one action per step between two accesses to shared    *)
(* state                                                                   *)
(***************************************************************************)
\* lines 345-349: the two fetches and the test of initial_host_mapping; the
\* switches of line 345 stay in the thread until line 352 has been passed:
\* they tell which fetch the ground truth was computed from
RtStart(t) ==
    /\ Running
    /\ threads[t].pc = "start"
    /\ \E topo \in TopologyAnswers, hs \in HostAnswers :
         threads' = [threads EXCEPT
             ![t].switches = topo.switches,
             ![t].links = topo.links,
             ![t].hosts = IF IsNone(initial_host_mapping) THEN hs ELSE <<>>,
             ![t].pc = IF IsNone(initial_host_mapping) THEN "set_hm" ELSE "chk_sl"]
    /\ UNCHANGED <<mpc, stop_real_time, fetch_queue, initial_host_mapping,
                   initial_switch_links, snapshot_file, G, mainLocals, ghosts>>

\* line 350; the hosts of line 346 stay in the thread until line 351 is
\* reached: they tell what the mapping was computed from
RtSetHostMapping(t) ==
    /\ Running
    /\ threads[t].pc = "set_hm"
    /\ initial_host_mapping' =
           Some(initialize_host_mapping(threads[t].links, threads[t].hosts))
    /\ hm_writes' = hm_writes + 1
    /\ threads' = [threads EXCEPT ![t].pc = "chk_sl"]
    /\ UNCHANGED <<mpc, stop_real_time, fetch_queue, initial_switch_links, snapshot_file, G, mainLocals, last, published, taken, sl_writes>>

\* line 351
RtTestSwitchLinks(t) ==
    /\ Running
    /\ threads[t].pc = "chk_sl"
    /\ threads' = [threads EXCEPT
           ![t].pc = IF IsNone(initial_switch_links) THEN "set_sl" ELSE "loop",
           ![t].switches = IF IsNone(initial_switch_links) THEN @ ELSE <<>>,
           ![t].hosts = <<>>,
           ![t].links = IF IsNone(initial_switch_links) THEN @ ELSE <<>>]
    /\ UNCHANGED <<mpc, stop_real_time, fetch_queue, initial_host_mapping,
                   initial_switch_links, snapshot_file, G, mainLocals, ghosts>>

\* line 352
RtSetSwitchLinks(t) ==
    /\ Running
    /\ threads[t].pc = "set_sl"
    /\ \E dl \in deduplicate_links(threads[t].links) :
           initial_switch_links' = Some(dl)
    /\ sl_writes' = sl_writes + 1
    /\ threads' = [threads EXCEPT ![t].pc = "loop", ![t].switches = <<>>,
                                  ![t].links = <<>>]
    /\ UNCHANGED <<mpc, stop_real_time, fetch_queue, initial_host_mapping, snapshot_file, G, mainLocals, last, published, taken, hm_writes>>

\* line 354: the loop test; the thread returns when the flag is set
RtLoopTest(t) ==
    /\ Running
    /\ threads[t].pc = "loop"
    /\ threads' = [threads EXCEPT
           ![t].pc = IF stop_real_time THEN "done" ELSE "fetch",
           ![t].outlived_stop = @ \/ (threads[t].stop_set /\ ~stop_real_time)]
    /\ UNCHANGED <<mpc, stop_real_time, fetch_queue, initial_host_mapping,
                   initial_switch_links, snapshot_file, G, mainLocals, ghosts>>

\* lines 356-360
RtFetch(t) ==
    /\ Running
    /\ threads[t].pc = "fetch"
    /\ \E topo \in TopologyAnswers :
         \E dl \in deduplicate_links(topo.links) :
           threads' = [threads EXCEPT
               ![t].switches = topo.switches,
               ![t].deduplicated_links = dl,
               ![t].current_host_links = ValueOf(initial_host_mapping),
               ![t].pc = "put"]
    /\ UNCHANGED <<mpc, stop_real_time, fetch_queue, initial_host_mapping,
                   initial_switch_links, snapshot_file, G, mainLocals, ghosts>>

\* fetch_queue.put(item) on the unbounded FIFO queue
queue_put(q, item) == Append(q, item)

\* line 363
RtPut(t) ==
    /\ Running
    /\ threads[t].pc = "put"
    /\ Len(fetch_queue) < MaxQueue
    /\ published < MaxPublish
    /\ published' = published + 1
    /\ fetch_queue' = queue_put(fetch_queue,
           [switches |-> threads[t].switches,
            links |-> threads[t].deduplicated_links,
            host_links |-> threads[t].current_host_links,
            seq |-> published + 1])
    /\ threads' = [threads EXCEPT
           ![t].pc = "sleep",
           ![t].switches = <<>>,
           ![t].deduplicated_links = <<>>,
           ![t].current_host_links = <<>>]
    /\ UNCHANGED <<mpc, stop_real_time, initial_host_mapping, initial_switch_links, snapshot_file,
                   G, mainLocals, last, taken, hm_writes, sl_writes>>

\* line 364
RtSleep(t) ==
    /\ Running
    /\ threads[t].pc = "sleep"
    /\ threads' = [threads EXCEPT ![t].pc = "loop"]
    /\ UNCHANGED <<mpc, stop_real_time, fetch_queue, initial_host_mapping,
                   initial_switch_links, snapshot_file, G, mainLocals, ghosts>>

(***************************************************************************)
(* __main__: the mode menu and real-time mode                              *)
(***************************************************************************)
\* the thread a start would create
NextThread == CHOOSE t \in ThreadIds :
                  threads[t].pc = "not started"
                  /\ \A u \in ThreadIds : u < t => threads[u].pc # "not started"

\* lines 387-390: mode "real"
ChooseReal ==
    /\ mpc = "menu"
    /\ \E t \in ThreadIds : threads[t].pc = "not started"
    /\ stop_real_time' = FALSE
    /\ threads' = [threads EXCEPT ![NextThread].pc = "start"]
    /\ mpc' = "real"
    /\ last' = [NoOperation EXCEPT !.op = "real", !.out = "Press Enter to stop"]
    /\ UNCHANGED <<fetch_queue, initial_host_mapping, initial_switch_links, snapshot_file, G, mainLocals,
                   published, taken, hm_writes, sl_writes>>

\* lines 393-396: the loop test and is_enter_pressed; Enter sets the flag,
\* for every thread that has not returned yet
RealPoll ==
    /\ mpc = "real"
    /\ \E enter \in BOOLEAN :
         /\ stop_real_time' = enter
         /\ threads' = [t \in ThreadIds |->
               IF enter /\ threads[t].pc \notin {"not started", "done"}
               THEN [threads[t] EXCEPT !.stop_set = TRUE]
               ELSE threads[t]]
    /\ mpc' = "get"
    /\ UNCHANGED <<fetch_queue, initial_host_mapping, initial_switch_links, snapshot_file, G, mainLocals, ghosts>>

\* a get that takes the newest item and leaves the older ones
queue_get_newest(q) == [item |-> q[Len(q)], rest |-> SubSeq(q, 1, Len(q) - 1)]

\* the item fetch_queue.get returns, and the queue it leaves
queue_get(q) == [item |-> Head(q), rest |-> Tail(q)]

\* lines 398-399: a tuple is there (or arrives within the timeout)
RealRender ==
    /\ mpc = "get"
    /\ fetch_queue # <<>>
    /\ LET got == queue_get(fetch_queue)
       IN /\ fetch_queue' = got.rest
          /\ G' = visualize_topology(G, got.item.switches, got.item.links,
                                     got.item.host_links)
          /\ taken' = [seq |-> got.item.seq, published |-> published,
                       count |-> taken.count + 1]
    /\ mpc' = IF stop_real_time THEN "menu" ELSE "real"
    /\ UNCHANGED <<threads, stop_real_time, initial_host_mapping,
                   initial_switch_links, snapshot_file, mainLocals, last,
                   published, hm_writes, sl_writes>>

\* lines 400-401: queue.Empty after the timeout
RealTimeout ==
    /\ mpc = "get"
    /\ fetch_queue = <<>>
    /\ mpc' = IF stop_real_time THEN "menu" ELSE "real"
    /\ UNCHANGED <<threads, stop_real_time, fetch_queue, initial_host_mapping,
                   initial_switch_links, snapshot_file, G, mainLocals, ghosts>>

\* lines 383-385: mode "exit"; the daemon threads die with the process
ChooseExit ==
    /\ mpc = "menu"
    /\ mpc' = "exited"
    /\ UNCHANGED <<threads, stop_real_time, fetch_queue, initial_host_mapping,
                   initial_switch_links, snapshot_file, G, mainLocals, ghosts>>

(***************************************************************************)
(* __main__: snapshot mode                                                 *)
(***************************************************************************)
\* Every mode assigns switches, links, host_links, hosts, deduplicated_links,
\* all_hosts, links_snapshot and host_links_snapshot before it reads them, so what they hold
\* when the menu prompts again is never read: the model forgets it there, and
\* forgets a name's value at the last statement that reads it (the raw links
\* after the deduplication, the hosts when the mapping exists already).
ForgetLocals ==
    /\ switches' = <<>>
    /\ links' = <<>>
    /\ host_links' = <<>>
    /\ hosts' = <<>>
    /\ deduplicated_links' = <<>>
    /\ all_hosts' = <<>>
    /\ links_snapshot' = <<>>
    /\ host_links_snapshot' = <<>>

\* lines 403-411: the fetches, the deduplication and the test of
\* initial_host_mapping
ChooseSnapshot ==
    /\ mpc = "menu"
    /\ \E topo \in TopologyAnswers, hs \in HostAnswers :
         \E dl \in deduplicate_links(topo.links) :
           /\ switches' = topo.switches
           /\ links' = <<>>
           /\ hosts' = IF IsNone(initial_host_mapping) THEN hs ELSE <<>>
           /\ deduplicated_links' = dl
    /\ last' = [NoOperation EXCEPT !.op = "snapshot", !.out = "Capturing snapshot"]
    /\ mpc' = IF IsNone(initial_host_mapping) THEN "snapshot init" ELSE "snapshot save"
    /\ UNCHANGED <<threads, stop_real_time, fetch_queue, initial_host_mapping,
                   initial_switch_links, snapshot_file, G, host_links, all_hosts, links_snapshot,
                   host_links_snapshot, published, taken, hm_writes, sl_writes>>

\* line 412: initialize_host_mapping on the deduplicated links; its TypeError
\* is caught nowhere and ends the process
SnapshotInit ==
    /\ mpc = "snapshot init"
    /\ IF initialize_host_mapping_raises(deduplicated_links)
       THEN /\ mpc' = "crashed"
            /\ UNCHANGED <<initial_host_mapping, hm_writes>>
       ELSE /\ mpc' = "snapshot save"
            /\ initial_host_mapping' =
                   Some(initialize_host_mapping(deduplicated_links, hosts))
            /\ hm_writes' = hm_writes + 1
    /\ UNCHANGED <<threads, stop_real_time, fetch_queue, initial_switch_links, snapshot_file, G, mainLocals, last, published, taken, sl_writes>>

\* all_hosts, lines 440-443: the sorted host names, then the switches that
\* are strings starting with "h" (a switch id is an int: there are none)
InitAllHosts(hls) == SortedStrs({hls[i].host_name : i \in DOMAIN hls})

\* lines 414-417: host_links = initial_host_mapping and save_snapshot
SnapshotSave ==
    /\ mpc = "snapshot save"
    /\ host_links' = ValueOf(initial_host_mapping)
    /\ snapshot_file' = write(snapshot_file,
                              save_snapshot(switches, deduplicated_links,
                                            ValueOf(initial_host_mapping)))
    /\ mpc' = "replay prompt"
    /\ last' = [NoOperation EXCEPT !.op = "snapshot", !.out = "Snapshot completed"]
    /\ UNCHANGED <<threads, stop_real_time, fetch_queue, initial_host_mapping,
                   initial_switch_links, G, switches, links, hosts,
                   deduplicated_links, all_hosts, links_snapshot,
                   host_links_snapshot, published, taken, hm_writes, sl_writes>>

\* lines 419-449: the replay prompt and, on "yes", the load and the first
\* drawing.  SNAPSHOT_FILE is read at line 424 only, and line 416 has always
\* written it in the same pass: what the file holds once the prompt has been
\* answered is never read again, and the model forgets it there as it forgets
\* the dead locals
ReplayPrompt ==
    /\ mpc = "replay prompt"
    /\ \E replay_now \in {"yes", "no"} :
         LET loaded == load_snapshot(snapshot_file)
         IN IF replay_now = "yes" /\ loaded.switches # <<>>
            THEN /\ mpc' = "replay"
                 /\ switches' = loaded.switches
                 /\ links' = loaded.links
                 /\ host_links' = loaded.host_links
                 /\ all_hosts' = InitAllHosts(loaded.host_links)
                 /\ links_snapshot' = loaded.links
                 /\ host_links_snapshot' = loaded.host_links
                 /\ G' = visualize_topology(G, loaded.switches, loaded.links,
                                            loaded.host_links)
                 /\ hosts' = <<>>
                 /\ deduplicated_links' = <<>>
                 /\ last' = [NoOperation EXCEPT !.op = "replay",
                                                !.out = "Snapshot Details"]
            ELSE /\ mpc' = "menu"
                 /\ ForgetLocals
                 /\ G' = G
                 /\ last' = [NoOperation EXCEPT
                        !.op = "replay",
                        !.out = IF replay_now = "yes"
                                THEN "No valid snapshot found"
                                ELSE "no replay"]
    /\ snapshot_file' = PyNone
    /\ UNCHANGED <<threads, stop_real_time, fetch_queue, initial_host_mapping,
                   initial_switch_links, published, taken, hm_writes, sl_writes>>

(***************************************************************************)
(* __main__: the replay loop                                               *)
(***************************************************************************)
\* lines 454-460: link, down
ReplayLinkDown ==
    /\ mpc = "replay"
    /\ \E source \in Tokens, destination \in Tokens :
         LET r == remove_link(G, source, destination, switches, links, host_links,
                              all_hosts)
         IN /\ G' = r.G
            /\ links' = r.links
            /\ host_links' = r.host_links
            /\ last' = [op |-> "remove_link", source |-> source,
                        destination |-> destination, out |-> r.out,
                        before |-> G, result |-> <<>>]
    /\ UNCHANGED <<mpc, threads, stop_real_time, fetch_queue, initial_host_mapping,
                   initial_switch_links, snapshot_file, switches, hosts,
                   deduplicated_links, all_hosts, links_snapshot,
                   host_links_snapshot, published, taken, hm_writes, sl_writes>>

\* lines 454-462: link, up
ReplayLinkUp ==
    /\ mpc = "replay"
    /\ \E source \in Tokens, destination \in Tokens :
         LET r == add_link(G, source, destination, switches, links, host_links,
                           host_links_snapshot)
         IN /\ Len(r.links) <= MaxLinks
            /\ Len(r.host_links) <= MaxLinks
            /\ G' = r.G
            /\ links' = r.links
            /\ host_links' = r.host_links
            /\ mpc' = IF r.out = "TypeError" THEN "crashed" ELSE "replay"
            /\ last' = [op |-> "add_link", source |-> source,
                        destination |-> destination, out |-> r.out,
                        before |-> G, result |-> <<>>]
    /\ UNCHANGED <<threads, stop_real_time, fetch_queue, initial_host_mapping,
                   initial_switch_links, snapshot_file, switches, hosts,
                   deduplicated_links, all_hosts, links_snapshot,
                   host_links_snapshot, published, taken, hm_writes, sl_writes>>

\* lines 463-464: link with a direction that is neither up nor down
ReplayLinkOther ==
    /\ mpc = "replay"
    /\ last' = [NoOperation EXCEPT !.op = "link", !.out = "Invalid option", !.before = G]
    /\ UNCHANGED <<mpc, threads, stop_real_time, fetch_queue, initial_host_mapping,
                   initial_switch_links, snapshot_file, G, mainLocals, published,
                   taken, hm_writes, sl_writes>>

\* lines 465-466
ReplayPingall ==
    /\ mpc = "replay"
    /\ last' = [NoOperation EXCEPT !.op = "pingall", !.out = "Results", !.before = G,
                                   !.result = pingall(G, all_hosts)]
    /\ UNCHANGED <<mpc, threads, stop_real_time, fetch_queue, initial_host_mapping,
                   initial_switch_links, snapshot_file, G, mainLocals, published,
                   taken, hm_writes, sl_writes>>

\* lines 467-468: back to the mode menu
ReplayExit ==
    /\ mpc = "replay"
    /\ mpc' = "menu"
    /\ ForgetLocals
    /\ last' = NoOperation
    /\ UNCHANGED <<threads, stop_real_time, fetch_queue, initial_host_mapping,
                   initial_switch_links, snapshot_file, G, published, taken,
                   hm_writes, sl_writes>>

(***************************************************************************)
(* The program.  Spec is the session: the mode menu, real-time mode with   *)
(* its threads, the snapshot capture and the entry into and exit from the  *)
(* replay loop.  The operations of the replay loop read and write only G,  *)
(* links, host_links and the two globals' values; SpecReplay runs them     *)
(* from the configurations in which a session enters the replay loop.      *)
(***************************************************************************)
Thread(t) ==
    \/ RtStart(t)
    \/ RtSetHostMapping(t)
    \/ RtTestSwitchLinks(t)
    \/ RtSetSwitchLinks(t)
    \/ RtLoopTest(t)
    \/ RtFetch(t)
    \/ RtPut(t)
    \/ RtSleep(t)

Next ==
    \/ ChooseReal
    \/ RealPoll
    \/ RealRender
    \/ RealTimeout
    \/ ChooseSnapshot
    \/ SnapshotInit
    \/ SnapshotSave
    \/ ReplayPrompt
    \/ ReplayExit
    \/ ChooseExit
    \/ \E t \in ThreadIds : Thread(t)

Spec == Init /\ [][Next]_vars

(***************************************************************************)
(* The replay loop, from every way a session can enter it: the snapshot    *)
(* just captured holds an answer of the controller with switches, the      *)
(* host mapping is the one fixed earlier in the session, and               *)
(* initial_switch_links is None (no thread has assigned it) or the         *)
(* deduplicated links of some answer.                                      *)
(***************************************************************************)
\* the values a session can have given initial_host_mapping
HostMappings ==
    {initialize_host_mapping(topo.links, hs) :
        topo \in TopologyAnswers, hs \in HostAnswers}

\* the values initial_switch_links can have
SwitchLinkFacts ==
    {PyNone} \cup UNION {{Some(dl) : dl \in deduplicate_links(topo.links)} :
                            topo \in TopologyAnswers}

InitReplay ==
    /\ mpc = "replay"
    /\ stop_real_time = FALSE
    /\ fetch_queue = <<>>
    /\ initial_host_mapping \in {Some(hm) : hm \in HostMappings}
    /\ initial_switch_links \in SwitchLinkFacts
    /\ threads = [t \in ThreadIds |->
           IF t = 1 /\ ~IsNone(initial_switch_links)
           THEN [NotStarted EXCEPT !.pc = "done", !.stop_set = TRUE]
           ELSE NotStarted]
    /\ \E topo \in {a \in TopologyAnswers : a.switches # <<>>} :
         \E dl \in deduplicate_links(topo.links) :
           LET loaded == load_snapshot(save_snapshot(topo.switches, dl,
                                                     ValueOf(initial_host_mapping)))
           IN /\ snapshot_file = PyNone
              /\ switches = loaded.switches
              /\ links = loaded.links
              /\ host_links = loaded.host_links
              /\ all_hosts = InitAllHosts(loaded.host_links)
              /\ links_snapshot = loaded.links
              /\ host_links_snapshot = loaded.host_links
              /\ G = visualize_topology(EmptyGraph, loaded.switches, loaded.links,
                                        loaded.host_links)
    /\ hosts = <<>>
    /\ deduplicated_links = <<>>
    /\ last = [NoOperation EXCEPT !.op = "replay", !.out = "Snapshot Details"]
    /\ published = 0
    /\ taken = [seq |-> 0, published |-> 0, count |-> 0]
    /\ hm_writes = 1
    /\ sl_writes = IF IsNone(initial_switch_links) THEN 0 ELSE 1

NextReplay ==
    \/ ReplayLinkDown
    \/ ReplayLinkUp
    \/ ReplayLinkOther
    \/ ReplayPingall
    \/ ReplayExit

SpecReplay == InitReplay /\ [][NextReplay]_vars

(***************************************************************************)
(* Topologies over a bounded universe: up to MaxSwitches switches, any set *)
(* of links between them, up to MaxHosts hosts.  initialize_host_mapping   *)
(* names the hosts in the order of (switch, port), so host i+1 is never on *)
(* a lower switch than host i; a host port is never a link port.           *)
(***************************************************************************)
MacOf(i) == <<"00:00:00:00:00:01", "00:00:00:00:00:02", "00:00:00:00:00:03",
              "00:00:00:00:00:04", "00:00:00:00:00:05">>[i]

\* the switch pairs a < b of 1..n, as a list
RECURSIVE AllPairs(_)
AllPairs(n) ==
    IF n < 2 THEN <<>> ELSE AllPairs(n - 1) \o [a \in 1..(n - 1) |-> <<a, n>>]

\* the elements of seq whose index is in keep, in order
RECURSIVE SubList(_, _)
SubList(seq, keep) ==
    IF seq = <<>> THEN <<>>
    ELSE SubList(SubSeq(seq, 1, Len(seq) - 1), keep)
         \o (IF Len(seq) \in keep THEN <<seq[Len(seq)]>> ELSE <<>>)

\* the deduplicated link of the switch pair p; a switch reaches switch b
\* through its port b
PairLink(p) == CanonicalLink(RawLink(p[1], p[2], p[2], p[1]))

\* the host mapping of m hosts, host i on switch at[i]
HostRecords(m, at) ==
    [i \in 1..m |-> [host_mac |-> MacOf(i), host_name |-> HostName(i),
                     switch_dpid |-> at[i], port_no |-> MaxSwitches + i]]

Attachments(n, m) ==
    {at \in [1..m -> 1..n] : \A i \in 1..m, j \in 1..m : i < j => at[i] <= at[j]}

\* a replay state: a snapshot of n switches (line 426: at least one), some
\* links and m hosts, of which the operator has taken some links and some
\* host edges down
InitPingall ==
    /\ mpc = "replay"
    /\ stop_real_time = FALSE
    /\ fetch_queue = <<>>
    /\ threads = [t \in ThreadIds |->
           IF t = 1 THEN [NotStarted EXCEPT !.pc = "done", !.stop_set = TRUE]
           ELSE NotStarted]
    /\ \E n \in 1..MaxSwitches, m \in 0..MaxHosts :
         \E saved \in SUBSET (1..Len(AllPairs(n))), at \in Attachments(n, m) :
           \E up \in SUBSET saved, attached \in SUBSET (1..m) :
             LET facts == [i \in DOMAIN AllPairs(n) |-> PairLink(AllPairs(n)[i])]
                 loaded == load_snapshot(save_snapshot([i \in 1..n |-> i],
                                                       SubList(facts, saved),
                                                       HostRecords(m, at)))
             IN /\ snapshot_file = PyNone
                /\ initial_switch_links = Some(SubList(facts, saved))
                /\ initial_host_mapping = Some(HostRecords(m, at))
                /\ switches = loaded.switches
                /\ links_snapshot = loaded.links
                /\ host_links_snapshot = loaded.host_links
                /\ all_hosts = InitAllHosts(loaded.host_links)
                /\ links = SubList([i \in DOMAIN facts |-> JsonLink(facts[i])], up)
                /\ host_links = SubList(loaded.host_links, attached)
                /\ G = visualize_topology(EmptyGraph, switches, links, host_links)
    /\ hosts = <<>>
    /\ deduplicated_links = <<>>
    /\ last = [NoOperation EXCEPT !.op = "replay", !.out = "Snapshot Details"]
    /\ published = 0
    /\ taken = [seq |-> 0, published |-> 0, count |-> 0]
    /\ hm_writes = 1
    /\ sl_writes = 1

NextPingall == ReplayPingall

SpecPingall == InitPingall /\ [][NextPingall]_vars

\* the graphs the foreground can hold when a tuple arrives
PriorGraphs ==
    {EmptyGraph,
     [nodes |-> {PyInt(1), PyInt(2), PyStr(HostName(1)), PyStr(HostName(2))},
      edges |-> {{PyInt(1), PyInt(2)}, {PyInt(1), PyStr(HostName(1))},
                 {PyInt(2), PyStr(HostName(2))}}]}

\* real-time mode with one tuple (S, L, H) waiting in fetch_queue
InitRebuild ==
    /\ mpc = "get"
    /\ stop_real_time = FALSE
    /\ threads = [t \in ThreadIds |->
           IF t = 1 THEN [NotStarted EXCEPT !.pc = "sleep"] ELSE NotStarted]
    /\ G \in PriorGraphs
    /\ snapshot_file = PyNone
    /\ \E m \in 0..MaxHosts :
         \E S \in SUBSET (1..MaxSwitches), L \in SUBSET (1..Len(AllPairs(MaxSwitches))),
            at \in Attachments(MaxSwitches, m) :
           LET facts == [i \in DOMAIN AllPairs(MaxSwitches) |->
                             PairLink(AllPairs(MaxSwitches)[i])]
           IN /\ initial_host_mapping = Some(HostRecords(m, at))
              /\ initial_switch_links = Some(facts)
              /\ fetch_queue = <<[switches |-> SubList([i \in 1..MaxSwitches |-> i], S),
                                  links |-> SubList(facts, L),
                                  host_links |-> HostRecords(m, at),
                                  seq |-> 1]>>
    /\ switches = <<>>
    /\ links = <<>>
    /\ host_links = <<>>
    /\ hosts = <<>>
    /\ deduplicated_links = <<>>
    /\ all_hosts = <<>>
    /\ links_snapshot = <<>>
    /\ host_links_snapshot = <<>>
    /\ last = NoOperation
    /\ published = 1
    /\ taken = [seq |-> 0, published |-> 0, count |-> 0]
    /\ hm_writes = 1
    /\ sl_writes = 1

NextRebuild == RealRender

SpecRebuild == InitRebuild /\ [][NextRebuild]_vars

(***************************************************************************)
(* Claims about the replay loop (SpecReplay)                               *)
(***************************************************************************)
\* the unordered switch pairs of the switch-link facts; none while the
\* global is None
FactSwitchPairs ==
    IF IsNone(initial_switch_links) THEN {}
    ELSE {{f[2][2], f[3][2]} : f \in Range(ValueOf(initial_switch_links))}

\* the (host, switch) attachments of the host facts
FactAttachments ==
    {<<r.host_name, r.switch_dpid>> : r \in Range(host_links_snapshot)}

\* the endpoint pair (a, b) matches a ground-truth fact
MatchesFact(a, b) ==
    \/ /\ isinstance_int(a) /\ isinstance_int(b)
       /\ {a[2], b[2]} \in FactSwitchPairs
    \/ /\ isinstance_str(a) /\ isinstance_int(b)
       /\ <<a[2], b[2]>> \in FactAttachments
    \/ /\ isinstance_int(a) /\ isinstance_str(b)
       /\ <<b[2], a[2]>> \in FactAttachments

\* the edge {a, b} is an entry of the loaded snapshot
InSnapshot(e) ==
    \/ \E l \in Range(links_snapshot) : e = {PyInt(l[2][2]), PyInt(l[3][2])}
    \/ \E r \in Range(host_links_snapshot) :
           e = {PyInt(r.switch_dpid), PyStr(r.host_name)}

EdgeMatchesFact(e) ==
    \E a \in e, b \in e : e = {a, b} /\ MatchesFact(a, b)

\* the operator typed two tokens that parse
LastParsed(l) == ~TokenRaises(l.source) /\ ~TokenRaises(l.destination)

\* C1: linkUp validity.  An add_link whose endpoint pair matches no
\* ground-truth fact leaves G, links and host_links unchanged and reports the
\* rejection; and every edge of G matches a fact or an entry of the loaded
\* snapshot.
C1_LinkUpValidity ==
    /\ [][(/\ mpc = "replay"
           /\ last'.op = "add_link"
           /\ LastParsed(last')
           /\ ~MatchesFact(ParseNode(last'.source), ParseNode(last'.destination)))
          => (/\ G' = G
              /\ links' = links
              /\ host_links' = host_links
              /\ mpc' = "replay"
              /\ last'.out = "not connected in original topology")]_vars
    /\ [](mpc = "replay" => \A e \in G.edges : EdgeMatchesFact(e) \/ InSnapshot(e))

\* C2: hosts persist.  After a successful remove_link of a host-to-switch
\* edge the host is still a node of G, without edges; and every host of
\* all_hosts is a node of G throughout the replay.
C2_HostsPersist ==
    mpc = "replay" =>
        /\ \A i \in DOMAIN all_hosts : has_node(G, PyStr(all_hosts[i]))
        /\ (last.op = "remove_link" /\ last.out = "Link removed" /\ startswith_h(last.source))
           => /\ has_node(G, PyStr(last.source))
              /\ neighbors(G, PyStr(last.source)) = {}

\* the step is add_link on the edge the last operation, a successful
\* remove_link, took down (the endpoints in either order)
ReAddsRemoved ==
    /\ mpc = "replay"
    /\ last.op = "remove_link"
    /\ last.out = "Link removed"
    /\ last'.op = "add_link"
    /\ \/ last'.source = last.source /\ last'.destination = last.destination
       \/ last'.source = last.destination /\ last'.destination = last.source

\* C3: linkDown/linkUp inverse.  remove_link of an edge that is in the
\* ground-truth facts followed by add_link of the same edge gives back the
\* node set and the edge set G had before the two operations.
C3_DownUpInverse ==
    [][(ReAddsRemoved /\ MatchesFact(ParseNode(last.source), ParseNode(last.destination)))
       => (G'.nodes = last.before.nodes /\ G'.edges = last.before.edges)]_vars

\* the graph the replay starts from
InitialGraph ==
    [nodes |-> {PyInt(switches[i]) : i \in DOMAIN switches}
               \cup UNION {{PyInt(l[2][2]), PyInt(l[3][2])} : l \in Range(links_snapshot)}
               \cup UNION {{PyInt(r.switch_dpid), PyStr(r.host_name)} :
                              r \in Range(host_links_snapshot)},
     edges |-> {{PyInt(l[2][2]), PyInt(l[3][2])} : l \in Range(links_snapshot)}
               \cup {{PyInt(r.switch_dpid), PyStr(r.host_name)} :
                        r \in Range(host_links_snapshot)}]

\* C3 witness: add_link has put back a host edge and a switch edge is still
\* there: G is the graph of the snapshot again, from a graph that lacked the
\* edge (and, the host having no other edge, the host)
C3_Witness ==
    /\ mpc = "replay"
    /\ last.op = "add_link"
    /\ last.out = "Link added"
    /\ last.source = <<"h", "1">>
    /\ last.destination = <<"1">>
    /\ last.before.edges = InitialGraph.edges \ {{PyStr(<<"h", "1">>), PyInt(1)}}
    /\ G = InitialGraph
    /\ {PyInt(1), PyInt(2)} \in G.edges

\* the two-switch scenario: switches 1 and 2, the link 1-2, h1 on switch 1
\* and h2 on switch 2
H1 == <<"h", "1">>
H2 == <<"h", "2">>
ScenarioGraph ==
    [nodes |-> {PyInt(1), PyInt(2), PyStr(H1), PyStr(H2)},
     edges |-> {{PyInt(1), PyInt(2)}, {PyInt(1), PyStr(H1)}, {PyInt(2), PyStr(H2)}}]

\* C5: partition scenario.  From the two-switch scenario, remove_link("1",
\* "2") and then pingall: h1 and h2 reach nobody, 0 of 2 received, 100% loss,
\* and both hosts are still attached to their switches.
C5_PartitionScenario ==
    [][(/\ mpc = "replay"
        /\ last.op = "remove_link"
        /\ last.source = <<"1">>
        /\ last.destination = <<"2">>
        /\ last.before = ScenarioGraph
        /\ all_hosts = <<H1, H2>>
        /\ last'.op = "pingall")
       => (/\ last.out = "Link removed"
           /\ last'.result.lines[H1] = <<>>
           /\ last'.result.lines[H2] = <<>>
           /\ last'.result.successful_pings = 0
           /\ last'.result.total_pings = 2
           /\ last'.result.packet_loss = 10000
           /\ {PyInt(1), PyStr(H1)} \in G'.edges
           /\ {PyInt(2), PyStr(H2)} \in G'.edges)]_vars

\* C5 witness: pingall has run on the scenario's graph without the link 1-2
C5_Witness ==
    /\ mpc = "replay"
    /\ last.op = "pingall"
    /\ all_hosts = <<H1, H2>>
    /\ links = <<>>
    /\ Len(links_snapshot) = 1
    /\ last.before = [ScenarioGraph EXCEPT !.edges = @ \ {{PyInt(1), PyInt(2)}}]
    /\ last.result.successful_pings = 0

(***************************************************************************)
(* Claims about pingall (SpecPingall) and the redraw (SpecRebuild)         *)
(***************************************************************************)
\* a and b are nodes of g and no set of nodes holding a but not b is closed
\* under the edges of g: some undirected path joins them
Connected(g, a, b) ==
    /\ a \in g.nodes
    /\ b \in g.nodes
    /\ \A side \in SUBSET g.nodes :
           (a \in side /\ b \notin side)
           => \E e \in g.edges : e \cap side # {} /\ e \ side # {}

\* the ordered pairs of distinct known hosts that a path joins
JoinedPairs(g, known) ==
    {p \in known \X known : p[1] # p[2] /\ Connected(g, PyStr(p[1]), PyStr(p[2]))}

\* C4: pingAll result.  pingall lists for each known host exactly the other
\* known hosts a path joins it to, in the host order; it counts those ordered
\* pairs; total = |hosts| * (|hosts| - 1); the loss is (total - successful) /
\* total to two decimals, 0% iff all pairs are joined and 100% iff none is,
\* and 0 with fewer than two hosts; the two-switch scenario gives h1 -> h2,
\* h2 -> h1, 2 of 2 and 0%.
C4_PingallResult ==
    last.op = "pingall" =>
        LET g == last.before
            known == Range(all_hosts)
            r == last.result
            n == Cardinality(known)
        IN /\ DOMAIN r.lines = known
           /\ \A a \in known :
                /\ Range(r.lines[a]) = {b \in known : <<a, b>> \in JoinedPairs(g, known)}
                /\ \A i \in 1..(Len(r.lines[a]) - 1) :
                       StrLess(r.lines[a][i], r.lines[a][i + 1])
           /\ r.successful_pings = Cardinality(JoinedPairs(g, known))
           /\ r.total_pings = n * (n - 1)
           /\ n < 2 => r.packet_loss = 0
           /\ n >= 2 =>
                LET lost == 10000 * (r.total_pings - r.successful_pings)
                    shown == r.packet_loss * r.total_pings
                IN /\ 2 * (shown - lost) <= r.total_pings
                   /\ 2 * (lost - shown) <= r.total_pings
                   /\ r.packet_loss = 0 <=> r.successful_pings = r.total_pings
                   /\ r.packet_loss = 10000 <=> r.successful_pings = 0
           /\ (g = ScenarioGraph /\ all_hosts = <<H1, H2>>) =>
                /\ r.lines[H1] = <<H2>>
                /\ r.lines[H2] = <<H1>>
                /\ r.successful_pings = 2
                /\ r.total_pings = 2
                /\ r.packet_loss = 0

\* C4 witness: pingall has run on the two-switch scenario
C4_Witness ==
    /\ last.op = "pingall"
    /\ last.before = ScenarioGraph
    /\ all_hosts = <<H1, H2>>
    /\ last.result.successful_pings = 2

\* the nodes and the edges that S, L and H give
DerivedNodes(S, L, H) ==
    {PyInt(S[i]) : i \in DOMAIN S}
    \cup UNION {{PyInt(L[i][2][2]), PyInt(L[i][3][2])} : i \in DOMAIN L}
    \cup UNION {{PyInt(H[i].switch_dpid), PyStr(H[i].host_name)} : i \in DOMAIN H}

DerivedEdges(L, H) ==
    {{PyInt(L[i][2][2]), PyInt(L[i][3][2])} : i \in DOMAIN L}
    \cup {{PyInt(H[i].switch_dpid), PyStr(H[i].host_name)} : i \in DOMAIN H}

C8_CooperativeStop == \A t \in ThreadIds : ~threads[t].outlived_stop

\* C9: ground-truth write-once.  initial_host_mapping and
\* initial_switch_links are each assigned at most once, and once assigned
\* never change.
C9_WriteOnce ==
    /\ [](hm_writes <= 1 /\ sl_writes <= 1)
    /\ [][/\ ~IsNone(initial_host_mapping) => initial_host_mapping' = initial_host_mapping
          /\ ~IsNone(initial_switch_links) => initial_switch_links' = initial_switch_links]_vars

\* C10: no fatal condition.  The process never dies of an uncaught
\* exception.
C10_NoFatal == mpc # "crashed"

(***************************************************************************)
(* Further claims about the replay loop (SpecReplay)                       *)
(***************************************************************************)
\* the step leaves the graph and the two tracked lists as they are and the
\* replay loop goes on
NothingMutated ==
    /\ G'.nodes = G.nodes
    /\ G'.edges = G.edges
    /\ links' = links
    /\ host_links' = host_links
    /\ mpc' = "replay"

\* C11: rejected operations do not mutate.  (a) remove_link or add_link with
\* an endpoint token that neither starts with "h" nor is an integer reports
\* invalid input; (b) remove_link of a parsed edge that is not in the graph
\* reports that the link does not exist; in both cases G, links and
\* host_links are unchanged and the replay loop continues.
C11_RejectedNoMutation ==
    [][/\ (/\ mpc = "replay"
           /\ last'.op \in {"remove_link", "add_link"}
           /\ ~LastParsed(last'))
          => (last'.out = "Invalid input" /\ NothingMutated)
       /\ (/\ mpc = "replay"
           /\ last'.op = "remove_link"
           /\ LastParsed(last')
           /\ {ParseNode(last'.source), ParseNode(last'.destination)} \notin G.edges)
          => (last'.out = "Link does not exist" /\ NothingMutated)]_vars

\* C11 witness: remove_link was refused on an edge that a graph with edges
\* does not have
C11_Witness ==
    /\ mpc = "replay"
    /\ last.op = "remove_link"
    /\ last.out = "Link does not exist"
    /\ last.source = <<"1">>
    /\ last.destination = <<"h", "2">>
    /\ G.edges # {}
    /\ G = last.before

(***************************************************************************)
(* deduplicate_links on every raw link list (SpecDedup): the thread is at  *)
(* line 352 with the links its first fetch returned                        *)
(***************************************************************************)
\* the endpoints (dpid, port_no) a switch-to-switch link can have
Endpoints == (1..MaxSwitches) \X (1..MaxPorts)

\* the raw links between two different endpoints
RawLinks ==
    {RawLink(p[1][1], p[1][2], p[2][1], p[2][2]) :
        p \in {q \in Endpoints \X Endpoints : q[1] # q[2]}}

RawLinkLists(k) == [1..k -> RawLinks]

InitDedup ==
    /\ mpc = "real"
    /\ stop_real_time = FALSE
    /\ fetch_queue = <<>>
    /\ \E k \in 0..MaxRawLinks : \E raw \in RawLinkLists(k) :
         threads = [t \in ThreadIds |->
             IF t = 1 THEN [NotStarted EXCEPT !.pc = "set_sl", !.links = raw,
                                              !.switches = [i \in 1..MaxSwitches |-> i]]
             ELSE NotStarted]
    /\ initial_host_mapping = Some(<<>>)
    /\ initial_switch_links = PyNone
    /\ G = EmptyGraph
    /\ snapshot_file = PyNone
    /\ switches = <<>>
    /\ links = <<>>
    /\ host_links = <<>>
    /\ hosts = <<>>
    /\ deduplicated_links = <<>>
    /\ all_hosts = <<>>
    /\ links_snapshot = <<>>
    /\ host_links_snapshot = <<>>
    /\ last = NoOperation
    /\ published = 0
    /\ taken = [seq |-> 0, published |-> 0, count |-> 0]
    /\ hm_writes = 1
    /\ sl_writes = 0

NextDedup == \E t \in ThreadIds : RtSetSwitchLinks(t)

SpecDedup == InitDedup /\ [][NextDedup]_vars

\* the two endpoints of a raw link and of a deduplicated entry, as a set
EndsOfRaw(l) ==
    {<<l[2].src.dpid, l[2].src.port_no>>, <<l[2].dst.dpid, l[2].dst.port_no>>}
EndsOfEntry(e) == {<<e[2][2], e[2][3]>>, <<e[3][2], e[3][3]>>}

\* the first endpoint of the entry is not after the second in (dpid, port_no)
EntryOrdered(e) ==
    \/ e[2][2] < e[3][2]
    \/ e[2][2] = e[3][2] /\ e[2][3] <= e[3][3]

\* the raw link reported from the other end
Reversed(l) == RawLink(l[2].dst.dpid, l[2].dst.port_no, l[2].src.dpid, l[2].src.port_no)

\* C12: link canonicalization.  deduplicate_links returns exactly one entry
\* per distinct unordered pair of endpoints of the raw list, each entry
\* ordered by (dpid, port_no); reversing a raw link or adding the
\* opposite-direction report of a link does not change the result; the two
\* reports of the link (1,1)-(2,1) give the single entry ((1,1),(2,1)).
C12_Canonical ==
    [][\A t \in ThreadIds :
         (threads[t].pc = "set_sl" /\ threads'[t].pc = "loop") =>
           LET raw == threads[t].links
               res == ValueOf(initial_switch_links')
           IN /\ {EndsOfEntry(res[k]) : k \in DOMAIN res}
                 = {EndsOfRaw(raw[i]) : i \in DOMAIN raw}
              /\ \A k \in DOMAIN res : EntryOrdered(res[k])
              /\ \A j \in DOMAIN res, k \in DOMAIN res :
                     EndsOfEntry(res[j]) = EndsOfEntry(res[k]) => j = k
              /\ \A i \in DOMAIN raw :
                   /\ deduplicate_links([raw EXCEPT ![i] = Reversed(raw[i])])
                      = deduplicate_links(raw)
                   /\ deduplicate_links(Append(raw, Reversed(raw[i])))
                      = deduplicate_links(raw)
              /\ raw = <<RawLink(1, 1, 2, 1), RawLink(2, 1, 1, 1)>>
                 => res = <<Tuple2(Tuple2(1, 1), Tuple2(2, 1))>>]_vars

\* C12 witness: deduplicate_links has returned the single entry
\* ((1,1),(2,1))
C12_Witness ==
    /\ threads[1].pc = "loop"
    /\ sl_writes = 1
    /\ initial_switch_links = Some(<<Tuple2(Tuple2(1, 1), Tuple2(2, 1))>>)

(***************************************************************************)
(* initialize_host_mapping on every raw host list (SpecHostMap): the       *)
(* thread is at line 350 with the links and the hosts of its first fetch   *)
(***************************************************************************)
\* the raw hosts fetch_hosts can return: one entry per MAC, in the order of
\* the controller's dict, each with its switch and port as numeric strings
RawHostLists(k) ==
    {[i \in 1..k |-> [mac |-> MacOf(macs[i]),
                      attached_switch |-> StrOf(at[i][1]),
                      attached_port |-> StrOf(at[i][2])]] :
        macs \in {f \in [1..k -> 1..MaxHosts] :
                     \A i \in 1..k, j \in 1..k : f[i] = f[j] => i = j},
        at \in [1..k -> Endpoints]}

InitHostMap ==
    /\ mpc = "real"
    /\ stop_real_time = FALSE
    /\ fetch_queue = <<>>
    /\ \E raw \in RawLinkLists(0) \cup RawLinkLists(1)
                     \cup {<<RawLink(1, 1, 2, 1), RawLink(2, 1, 1, 1)>>},
          k \in 0..MaxHosts : \E hs \in RawHostLists(k) :
         threads = [t \in ThreadIds |->
             IF t = 1 THEN [NotStarted EXCEPT !.pc = "set_hm", !.links = raw,
                                              !.hosts = hs,
                                              !.switches = [i \in 1..MaxSwitches |-> i]]
             ELSE NotStarted]
    /\ initial_host_mapping = PyNone
    /\ initial_switch_links = PyNone
    /\ G = EmptyGraph
    /\ snapshot_file = PyNone
    /\ switches = <<>>
    /\ links = <<>>
    /\ host_links = <<>>
    /\ hosts = <<>>
    /\ deduplicated_links = <<>>
    /\ all_hosts = <<>>
    /\ links_snapshot = <<>>
    /\ host_links_snapshot = <<>>
    /\ last = NoOperation
    /\ published = 0
    /\ taken = [seq |-> 0, published |-> 0, count |-> 0]
    /\ hm_writes = 0
    /\ sl_writes = 0

NextHostMap == \E t \in ThreadIds : RtSetHostMapping(t)

SpecHostMap == InitHostMap /\ [][NextHostMap]_vars

\* C13: host-naming determinism.  For two raw host lists that are
\* permutations of each other initialize_host_mapping returns the same list
\* of records, and the names h1, h2, ... follow ascending (switch, port).
C13_NamingDeterminism ==
    [][\A t \in ThreadIds :
         (threads[t].pc = "set_hm" /\ threads'[t].pc = "chk_sl") =>
           LET res == ValueOf(initial_host_mapping')
           IN /\ \A p \in Orderings(Range(threads[t].hosts)) :
                    initialize_host_mapping(threads[t].links, p) = res
              /\ \A i \in DOMAIN res : res[i].host_name = HostName(i)
              /\ \A i \in DOMAIN res, j \in DOMAIN res :
                    i < j => ~EndpointLess(<<res[j].switch_dpid, res[j].port_no>>,
                                           <<res[i].switch_dpid, res[i].port_no>>)]_vars

(***************************************************************************)
(* save_snapshot and load_snapshot on every capture (SpecSnapshot): the    *)
(* main thread is at line 414 with what it fetched, SNAPSHOT_FILE holding  *)
(* whatever an earlier capture or another program left; or it is at the    *)
(* prompt of line 419 and the file has been damaged since the save         *)
(***************************************************************************)
\* a document without the key host_links
DocumentLackingKey == Some([switches |-> <<1>>, links |-> <<>>])

\* the document of an earlier capture
OlderDocument ==
    save_snapshot(<<1, 2>>, <<PairLink(<<1, 2>>)>>, HostRecords(1, <<1>>))

DamagedFiles == {PyNone, Unreadable, DocumentLackingKey}

InitSnapshot ==
    /\ stop_real_time = TRUE
    /\ fetch_queue = <<>>
    /\ threads = [t \in ThreadIds |->
           IF t = 1 THEN [NotStarted EXCEPT !.pc = "done", !.stop_set = TRUE]
           ELSE NotStarted]
    /\ G = EmptyGraph
    /\ \E n \in 0..MaxSwitches, m \in 0..MaxHosts :
         \E fetched \in SUBSET (1..Len(AllPairs(n))), at \in Attachments(n, m) :
           LET facts == [i \in DOMAIN AllPairs(n) |-> PairLink(AllPairs(n)[i])]
           IN /\ initial_switch_links = Some(facts)
              /\ initial_host_mapping = Some(HostRecords(m, at))
              /\ switches = [i \in 1..n |-> i]
              /\ deduplicated_links = SubList(facts, fetched)
              /\ \/ /\ mpc = "snapshot save"
                    /\ snapshot_file \in DamagedFiles \cup {OlderDocument}
                    /\ host_links = <<>>
                    /\ last = [NoOperation EXCEPT !.op = "snapshot",
                                                  !.out = "Capturing snapshot"]
                 \/ /\ mpc = "replay prompt"
                    /\ snapshot_file \in DamagedFiles
                    /\ host_links = HostRecords(m, at)
                    /\ last = [NoOperation EXCEPT !.op = "snapshot",
                                                  !.out = "Snapshot completed"]
    /\ links = <<>>
    /\ hosts = <<>>
    /\ all_hosts = <<>>
    /\ links_snapshot = <<>>
    /\ host_links_snapshot = <<>>
    /\ published = 0
    /\ taken = [seq |-> 0, published |-> 0, count |-> 0]
    /\ hm_writes = 1
    /\ sl_writes = 1

NextSnapshot ==
    \/ SnapshotSave
    \/ ReplayPrompt

SpecSnapshot == InitSnapshot /\ [][NextSnapshot]_vars

\* the links as a JSON document gives them back: every tuple a list of the
\* same elements in the same order
AsLists(ls) ==
    [i \in DOMAIN ls |-> <<"list", <<"list", ls[i][2][2], ls[i][2][3]>>,
                                   <<"list", ls[i][3][2], ls[i][3][3]>>>>]

\* after the save the file holds the switches, links and host_links of this
\* capture and nothing of what it held before
SaveOverwrites(saved_links) ==
    mpc = "snapshot save" =>
        /\ mpc' = "replay prompt"
        /\ snapshot_file' = Some([switches |-> switches,
                                  links |-> saved_links,
                                  host_links |-> ValueOf(initial_host_mapping)])

\* a load that enters the replay loop returns the triple of the capture
LoadReturnsSaved(saved_links) ==
    (mpc = "replay prompt" /\ mpc' = "replay") =>
        /\ switches' = switches
        /\ links' = saved_links
        /\ host_links' = host_links

\* a damaged file gives three empty lists: the replay loop is not entered,
\* and on "yes" the caller reports that there is no valid snapshot
DamagedNotReplayed ==
    (mpc = "replay prompt" /\ snapshot_file \in DamagedFiles) =>
        /\ mpc' = "menu"
        /\ last'.out \in {"No valid snapshot found", "no replay"}

\* C14 as stated: snapshot round-trip and overwrite.  The triple load_snapshot
\* returns after save_snapshot(switches, links, host_links) is equal to the
\* saved one; the save replaces what the file held; a damaged file gives three
\* empty lists and no replay.
C14_RoundTrip ==
    [][/\ SaveOverwrites(AsLists(deduplicated_links))
       /\ LoadReturnsSaved(deduplicated_links)
       /\ DamagedNotReplayed]_vars

\* C14: snapshot round-trip up to JSON, and overwrite.  load_snapshot after
\* save_snapshot returns the saved switches and host_links, and the saved
\* links with every tuple read back as a list of the same elements in the
\* same order; the save replaces what the file held; a damaged file gives
\* three empty lists and no replay.
C14_RoundTripAsLists ==
    [][/\ SaveOverwrites(AsLists(deduplicated_links))
       /\ LoadReturnsSaved(AsLists(deduplicated_links))
       /\ DamagedNotReplayed]_vars

\* C14 witness: the replay loop has been entered with a link and a host read
\* back from the file
C14_Witness ==
    /\ mpc = "replay"
    /\ last.op = "replay"
    /\ Len(links) = 1
    /\ Len(host_links) = 2
    /\ snapshot_file = PyNone

\* the switch ids a document references in links and in host_links
ReferencedSwitches(document) ==
    {Item(Item(document.links[i], 0), 0) : i \in DOMAIN document.links}
    \cup {Item(Item(document.links[i], 1), 0) : i \in DOMAIN document.links}
    \cup {document.host_links[i].switch_dpid : i \in DOMAIN document.host_links}

\* C15: snapshot closure.  In every session every snapshot that snapshot mode
\* has written lists, in switches, each switch id an entry of its links or
\* of its host_links references.
C15_SnapshotClosure ==
    ~IsNone(snapshot_file) =>
        ReferencedSwitches(ValueOf(snapshot_file))
            \subseteq {ValueOf(snapshot_file).switches[i] :
                          i \in DOMAIN ValueOf(snapshot_file).switches}

\* the real_time_update threads that have been started and have not returned
AliveThreads == {t \in ThreadIds : threads[t].pc \notin {"not started", "done"}}

\* C16: single producer.  Whatever the operator starts and stops, at most one
\* real_time_update thread is alive and able to put into fetch_queue.
C16_SingleProducer == Cardinality(AliveThreads) <= 1

\* the thread at line 350 or the main thread at line 412, about to fix the
\* host mapping, holds switches and hosts of a fetch that did not fail
MappingFromSuccessfulFetch ==
    \/ \E t \in ThreadIds : /\ threads[t].pc = "set_hm"
                            /\ threads'[t].pc # "set_hm"
                            /\ threads[t].switches # <<>>
                            /\ threads[t].hosts # <<>>
    \/ /\ mpc = "snapshot init"
       /\ switches # <<>>
       /\ hosts # <<>>

\* the thread at line 352 holds switches of a fetch that did not fail
FactsFromSuccessfulFetch ==
    \E t \in ThreadIds : /\ threads[t].pc = "set_sl"
                         /\ threads'[t].pc # "set_sl"
                         /\ threads[t].switches # <<>>

\* C17: ground truth from the first successful fetch.  A fetch that returned
\* empty switches or hosts does not fix initial_host_mapping or
\* initial_switch_links, and every tuple put into fetch_queue carries the
\* mapping that is fixed.
C17_FirstSuccessfulFetch ==
    [][/\ (IsNone(initial_host_mapping) /\ ~IsNone(initial_host_mapping'))
              => MappingFromSuccessfulFetch
       /\ (IsNone(initial_switch_links) /\ ~IsNone(initial_switch_links'))
              => FactsFromSuccessfulFetch
       /\ published' = published + 1
              => fetch_queue'[Len(fetch_queue')].host_links
                     = ValueOf(initial_host_mapping)]_vars

\* C18: ground truth available and covering the snapshot in replay.  Whenever
\* the replay loop is active, in every session, initial_switch_links is
\* initialised and holds, for every switch-to-switch link of the loaded
\* snapshot, an entry with the same unordered switch pair.
C18_FactsCoverSnapshot ==
    mpc = "replay" =>
        /\ ~IsNone(initial_switch_links)
        /\ \A l \in Range(links_snapshot) : {l[2][2], l[3][2]} \in FactSwitchPairs

\* C19: snapshot capture in a fresh session.  When snapshot mode finds no
\* host mapping, line 412 computes one from the deduplicated links and the
\* fetched hosts and the capture goes on to the save, whatever topology was
\* fetched; the save then writes the fetched switches, the deduplicated links
\* and that mapping.
C19_FreshCapture ==
    [][/\ mpc = "snapshot init"
           => /\ mpc' = "snapshot save"
              /\ ~IsNone(initial_host_mapping')
              /\ switches' = switches
              /\ deduplicated_links' = deduplicated_links
       /\ mpc = "snapshot save"
           => /\ mpc' = "replay prompt"
              /\ ~IsNone(snapshot_file')
              /\ ValueOf(snapshot_file').switches = switches
              /\ ValueOf(snapshot_file').links = AsLists(deduplicated_links)
              /\ ValueOf(snapshot_file').host_links = ValueOf(initial_host_mapping)]_vars

\* the records remove_link(a, b) is to drop: the switch links of the pair
\* {a, b}, the host link of that host on that switch
RecordOfPair(link, a, b) == {link[2][2], link[3][2]} = {a[2], b[2]}
RecordOfHost(host_link, a, b) ==
    {PyStr(host_link.host_name), PyInt(host_link.switch_dpid)} = {a, b}

\* the entries of seq, in order, that are not in drop
RECURSIVE Without(_, _)
Without(seq, drop) ==
    IF seq = <<>> THEN <<>>
    ELSE Without(SubSeq(seq, 1, Len(seq) - 1), drop)
         \o (IF seq[Len(seq)] \in drop THEN <<>> ELSE <<seq[Len(seq)]>>)

\* what a successful remove_link(a, b) is to leave
LinkDownEffect(a, b) ==
    /\ G'.edges = G.edges \ {{a, b}}
    /\ IF isinstance_int(a) /\ isinstance_int(b)
       THEN /\ links' = Without(links, {l \in Range(links) : RecordOfPair(l, a, b)})
            /\ host_links' = host_links
       ELSE /\ host_links' = Without(host_links,
                                {r \in Range(host_links) : RecordOfHost(r, a, b)})
            /\ links' = links
    /\ UNCHANGED <<switches, initial_switch_links, initial_host_mapping,
                   links_snapshot, host_links_snapshot>>
    /\ {a, b} \notin visualize_topology(G', switches', links', host_links').edges

\* C20: linkDown effect and frame.  A successful remove_link(a, b) removes the
\* edge {a, b} from G and every record of that pair from links (two switches)
\* or the record of that host on that switch from host_links, leaves the
\* other list, switches, every other edge and the ground truth unchanged, and
\* a rebuild from the lists does not bring the edge back.
C20_LinkDownEffect ==
    [][(/\ mpc = "replay"
        /\ last'.op = "remove_link"
        /\ last' # last
        /\ LastParsed(last')
        /\ {ParseNode(last'.source), ParseNode(last'.destination)} \in G.edges)
       => /\ last'.out = "Link removed"
          /\ LinkDownEffect(ParseNode(last'.source), ParseNode(last'.destination))]_vars

\* C20 witness: a host link has been taken down, the switch given first,
\* while a switch link is up
C20_Witness ==
    /\ mpc = "replay"
    /\ last.op = "remove_link"
    /\ last.out = "Link removed"
    /\ startswith_h(last.destination)
    /\ {ParseNode(last.source), ParseNode(last.destination)} \in last.before.edges
    /\ {ParseNode(last.source), ParseNode(last.destination)} \notin G.edges
    /\ Len(links) >= 1
    /\ Len(host_links) >= 1

\* the (switch, port) endpoints of the raw switch-to-switch links
LinkEndpoints(ls) == UNION {EndsOfRaw(ls[i]) : i \in DOMAIN ls}

\* the raw hosts that are not attached to an endpoint of a link
HostFacing(ls, hs) ==
    {h \in Range(hs) :
        <<IntOf(h.attached_switch), IntOf(h.attached_port)>> \notin LinkEndpoints(ls)}

\* C21: host attachment inference.  initialize_host_mapping records a host
\* iff its (attached switch, attached port) is no endpoint of a
\* switch-to-switch link; the records are named h1..hk without gaps, in
\* non-decreasing (switch, port) order, each with the host's own mac, switch
\* and port; and filter_host_links returns the same list for the same inputs.
C21_HostInference ==
    [][\A t \in ThreadIds :
         (threads[t].pc = "set_hm" /\ threads'[t].pc = "chk_sl") =>
           LET res == ValueOf(initial_host_mapping')
               kept == HostFacing(threads[t].links, threads[t].hosts)
           IN /\ {res[i].host_mac : i \in DOMAIN res} = {h.mac : h \in kept}
              /\ Len(res) = Cardinality(kept)
              /\ \A i \in DOMAIN res : res[i].host_name = HostName(i)
              /\ \A i \in DOMAIN res, j \in DOMAIN res :
                    i < j => ~EndpointLess(<<res[j].switch_dpid, res[j].port_no>>,
                                           <<res[i].switch_dpid, res[i].port_no>>)
              /\ \A i \in DOMAIN res : \E h \in kept :
                    /\ h.mac = res[i].host_mac
                    /\ IntOf(h.attached_switch) = res[i].switch_dpid
                    /\ IntOf(h.attached_port) = res[i].port_no
              /\ filter_host_links(threads[t].links, threads[t].hosts) = res]_vars

\* C21 witness: of three hosts one was on a link port and two were recorded,
\* the host fetched last being named first
C21_Witness ==
    \E t \in ThreadIds :
        /\ threads[t].pc = "chk_sl"
        /\ Len(threads[t].hosts) = 3
        /\ threads[t].links # <<>>
        /\ ~IsNone(initial_host_mapping)
        /\ Len(ValueOf(initial_host_mapping)) = 2
        /\ ValueOf(initial_host_mapping)[1].host_mac = threads[t].hosts[3].mac

====
